---- MODULE Spec2Model ----
(***************************************************************************)
(* Lung segmentation of one CT slice (src/main.py, lungDetection).         *)
(*                                                                         *)
(* The image is a grid of BGR pixels.  Pass 1 colours every pixel air or   *)
(* tissue and fills short gaps between air pixels, pass 2 colours the      *)
(* margins of every row non_body, pass 3 counts the pixels that are still  *)
(* air and colours them lungs, and the count is converted to an area with  *)
(* the voxel dimensions of the file header.                                *)
(*                                                                         *)
(* One action is one pass; the loops over y and x are the recursive        *)
(* operators below.  Rows and columns are numbered from 0 as in the        *)
(* source.                                                                 *)
(***************************************************************************)
EXTENDS Integers, Sequences, FiniteSets

\* ---- bounds of the model ------------------------------------------------
MaxWidth == 4
MaxHeight == 2
MaxJump == 4
MaxSpacing == 2

\* ---- program constants --------------------------------------------------
\* class colors
colors_air == <<0, 0, 255>>
colors_tissue == <<80, 80, 200>>
colors_non_body == <<60, 60, 60>>
colors_lungs == <<240, 160, 160>>

threshold == 40

\* the grey levels a normalized pixel takes in the model: the two values
\* on either side of the threshold comparison
Intensities == {threshold - 1, threshold}

\* cv.cvtColor(normalized, cv.COLOR_GRAY2BGR): the grey level in 3 channels
Gray2Bgr(v) == <<v, v, v>>

VARIABLES original, image, height, width, jump_size, last, pc, area,
          voxel_dimensions

vars == <<original, image, height, width, jump_size, last, pc, area,
          voxel_dimensions>>

\* ---- pass 1: air / tissue and gap fill ----------------------------------

\* all(image[y, x] < threshold)
BelowThreshold(px) == \A c \in 1..3 : px[c] < threshold

\* (y == last[1]) and (x - last[0] < jump_size); last is (x, y)
ShouldFillAnyDistance(x, row_y, lst, js) == row_y = lst[2]
ShouldFill(x, row_y, lst, js) == (row_y = lst[2]) /\ (x - lst[1] < js)

\* the columns last[0]+i for i in range(1, x-last[0])
GapColsFirstOnly(x, lst) == {lst[1] + 1 : i \in 1..(x - lst[1] - 1)}
GapCols(x, lst) == {lst[1] + i : i \in 1..(x - lst[1] - 1)}

\* the body of the inner loop of pass 1 for one pixel
ClassifyPixel(row, x, row_y, lst, js) ==
    IF BelowThreshold(row[x])
    THEN LET gap == IF ShouldFill(x, row_y, lst, js) THEN GapCols(x, lst) ELSE {}
         IN  [row  |-> [c \in DOMAIN row |->
                           IF c = x \/ c \in gap THEN colors_air ELSE row[c]],
              last |-> <<x, row_y>>]
    ELSE [row  |-> [row EXCEPT ![x] = colors_tissue],
          last |-> lst]

\* for x in range(width), from column x on
RECURSIVE ClassifyFrom(_, _, _, _, _)
ClassifyFrom(row, x, row_y, lst, js) ==
    IF x \notin DOMAIN row
    THEN [row |-> row, last |-> lst]
    ELSE LET r == ClassifyPixel(row, x, row_y, lst, js)
         IN  ClassifyFrom(r.row, x + 1, row_y, r.last, js)

ClassifyRow(row, row_y, lst, js) == ClassifyFrom(row, 0, row_y, lst, js)

\* ---- pass 2: edges and margin fill --------------------------------------

\* edges of one row, as the list of (x, y) the first inner loop builds
RECURSIVE EdgesFrom(_, _, _, _)
EdgesFrom(row, x, row_y, edges) ==
    IF x \notin DOMAIN row
    THEN edges
    ELSE EdgesFrom(row, x + 1, row_y,
                   IF x # 0 /\ row[x] # row[x - 1]
                   THEN Append(edges, <<x, row_y>>)
                   ELSE edges)

EdgesOf(row, row_y) == EdgesFrom(row, 0, row_y, <<>>)

\* the FAKE EDGE: the last edge is removed when its pixel is tissue
KeepFakeEdge(edges, row) == edges
DropFakeEdge(edges, row) ==
    IF Len(edges) > 0 /\ row[edges[Len(edges)][1]] = colors_tissue
    THEN SubSeq(edges, 1, Len(edges) - 1)
    ELSE edges

\* the two toggles of the fill flag at column x
FillAtNoReenable(x, edges, fill) ==
    IF Len(edges) > 0
    THEN IF x = edges[1][1] THEN FALSE ELSE fill
    ELSE fill
FillAtSwapped(x, edges, fill) ==
    IF Len(edges) > 0
    THEN LET f1 == IF x = edges[Len(edges)][1] THEN TRUE ELSE fill
         IN  IF x = edges[1][1] THEN FALSE ELSE f1
    ELSE fill
FillAt(x, edges, fill) ==
    IF Len(edges) > 0
    THEN LET f1 == IF x = edges[1][1] THEN FALSE ELSE fill
         IN  IF x = edges[Len(edges)][1] THEN TRUE ELSE f1
    ELSE fill

\* the second inner loop of pass 2, from column x on
RECURSIVE SweepFrom(_, _, _, _)
SweepFrom(row, x, edges, fill) ==
    IF x \notin DOMAIN row
    THEN row
    ELSE LET f == FillAt(x, edges, fill)
         IN  SweepFrom(IF f THEN [row EXCEPT ![x] = colors_non_body] ELSE row,
                       x + 1, edges, f)

SeparateRow(row, row_y) ==
    SweepFrom(row, 0, DropFakeEdge(EdgesOf(row, row_y), row), TRUE)

\* ---- pass 3: count and recolour -----------------------------------------

RecolorRowLungsOnly(row) ==
    [x \in DOMAIN row |-> IF row[x] = colors_lungs THEN colors_lungs ELSE row[x]]
RecolorRow(row) ==
    [x \in DOMAIN row |-> IF row[x] = colors_air THEN colors_lungs ELSE row[x]]

CountRow(row) == Cardinality({x \in DOMAIN row : row[x] = colors_air})

\* voxel_dimensions[0] * voxel_dimensions[1]
VoxelAreaSquare(vd) == vd[1] * vd[1]
VoxelArea(vd) == vd[1] * vd[2]

\* ---- the passes over the whole image ------------------------------------

\* pass 1: for y in range(height), from row r on, with the last air pixel lst
RECURSIVE ClassifyImageFrom(_, _, _, _)
ClassifyImageFrom(img, r, lst, js) ==
    IF r \notin DOMAIN img
    THEN [image |-> img, last |-> lst]
    ELSE LET c == ClassifyRow(img[r], r, lst, js)
         IN  ClassifyImageFrom([img EXCEPT ![r] = c.row], r + 1, c.last, js)

\* the air / tissue image pass 1 makes of an image; last starts at (0, 0)
ClassifyImage(img, js) == ClassifyImageFrom(img, 0, <<0, 0>>, js)

\* pass 2: for y in range(height); no row reads another
SeparateImage(img) == [r \in DOMAIN img |-> SeparateRow(img[r], r)]

\* pass 3: the pixels counted from row r on, added to acc
RECURSIVE CountFrom(_, _, _)
CountFrom(img, r, acc) ==
    IF r \notin DOMAIN img
    THEN acc
    ELSE CountFrom(img, r + 1, acc + CountRow(img[r]))

RecolorImage(img) == [r \in DOMAIN img |-> RecolorRow(img[r])]

\* ---- the state machine --------------------------------------------------
\* One action is one pass of lungDetection.  jump_size is the module's
\* global; it is drawn from 2..MaxJump, a jump_size of 1 fills no gap, as 2.

Init ==
    /\ width \in 1..MaxWidth
    /\ height \in 1..MaxHeight
    /\ jump_size \in 2..MaxJump
    /\ \E g \in [0..(height - 1) -> [0..(width - 1) -> Intensities]] :
          image = [r \in 0..(height - 1) |->
                      [c \in 0..(width - 1) |-> Gray2Bgr(g[r][c])]]
    /\ original = image
    /\ last = <<0, 0>>
    /\ pc = "pass1"
    /\ area = 0
    /\ voxel_dimensions = <<>>

Pass1 ==
    /\ pc = "pass1"
    /\ LET r == ClassifyImageFrom(image, 0, last, jump_size)
       IN  /\ image' = r.image
           /\ last' = r.last
    /\ pc' = "pass2"
    /\ UNCHANGED <<original, height, width, jump_size, area, voxel_dimensions>>

Pass2 ==
    /\ pc = "pass2"
    /\ image' = SeparateImage(image)
    /\ pc' = "pass3"
    /\ UNCHANGED <<original, height, width, jump_size, last, area,
                   voxel_dimensions>>

Pass3 ==
    /\ pc = "pass3"
    /\ area' = CountFrom(image, 0, area)
    /\ image' = RecolorImage(image)
    /\ pc' = "convert"
    /\ UNCHANGED <<original, height, width, jump_size, last, voxel_dimensions>>

\* the header's zooms are an input read at this point
Convert ==
    /\ pc = "convert"
    /\ \E s0 \in 1..MaxSpacing, s1 \in 1..MaxSpacing :
          /\ voxel_dimensions' = <<s0, s1>>
          /\ area' = area * VoxelArea(<<s0, s1>>)
    /\ pc' = "done"
    /\ UNCHANGED <<original, image, height, width, jump_size, last>>

Next == Pass1 \/ Pass2 \/ Pass3 \/ Convert

Spec == Init /\ [][Next]_vars

\* ---- vocabulary of the properties ---------------------------------------

Rows == 0..(height - 1)
Cols == 0..(width - 1)

\* the image as it is when pass 1 has finished
Classified == ClassifyImage(original, jump_size).image

\* pass 1 has just finished and pass 2 has not started
Pass1Finished == pc = "pass2"

\* the three passes are over; Convert leaves the image as it is
Segmented == pc = "convert"

Finished == pc = "done"

Low(r, c) == BelowThreshold(original[r][c])
High(r, c) == ~BelowThreshold(original[r][c])

\* the maximal runs a..b of at-or-above-threshold pixels of row r
HighRuns(r) ==
    {ab \in Cols \X Cols :
        /\ ab[1] <= ab[2]
        /\ \A c \in ab[1]..ab[2] : High(r, c)
        /\ (ab[1] - 1 \in Cols => Low(r, ab[1] - 1))
        /\ (ab[2] + 1 \in Cols => Low(r, ab[2] + 1))}

LungCells == {rc \in Rows \X Cols : image[rc[1]][rc[2]] = colors_lungs}

\* the edge columns of a row as a set, the last one dropped when it is tissue
EdgeCols(row) == {x \in DOMAIN row : x > 0 /\ row[x] # row[x - 1]}
SetMax(S) == CHOOSE m \in S : \A n \in S : n <= m
SetMin(S) == CHOOSE m \in S : \A n \in S : m <= n
ClaimEdges(row) ==
    LET all == EdgeCols(row)
    IN  IF all # {} /\ row[SetMax(all)] = colors_tissue
        THEN all \ {SetMax(all)}
        ELSE all

\* ---- C1 ------------------------------------------------------------------
\* C1: after the three passes every pixel is tissue, non_body or lungs;
\* no pixel is still air.
C1_NoAirSurvives ==
    Segmented =>
        \A r \in Rows, c \in Cols :
            image[r][c] \in {colors_tissue, colors_non_body, colors_lungs}

C1_Witness ==
    /\ Segmented
    /\ \E r \in Rows, c \in Cols : image[r][c] = colors_lungs
    /\ \E r \in Rows, c \in Cols : image[r][c] = colors_tissue
    /\ \E r \in Rows, c \in Cols : Classified[r][c] = colors_air
                                    /\ image[r][c] = colors_non_body

\* ---- C2 ------------------------------------------------------------------
\* C2: in the final image column 0 and column width-1 of every row are
\* never lungs, in rows with edges and in rows without.
C2_MarginNeverLung ==
    Segmented =>
        \A r \in Rows : /\ image[r][0] # colors_lungs
                        /\ image[r][width - 1] # colors_lungs

C2_Witness ==
    /\ Segmented
    /\ \E r \in Rows : /\ \E c \in Cols : image[r][c] = colors_lungs
                       /\ Classified[r][width - 1] = colors_air
    /\ \E r \in Rows : EdgeCols(Classified[r]) = {}

\* ---- C3 ------------------------------------------------------------------
\* C3 as stated: a pixel ends as lungs exactly when it is air after pass 1
\* and its row has a tissue pixel to its left and a tissue pixel to its
\* right; every other air pixel ends as non_body.
C3_Original ==
    Segmented =>
        LET cl == Classified
        IN
        \A r \in Rows, c \in Cols :
            LET enclosed ==
                    /\ cl[r][c] = colors_air
                    /\ \E l \in Cols : l < c /\ cl[r][l] = colors_tissue
                    /\ \E t \in Cols : t > c /\ cl[r][t] = colors_tissue
            IN  /\ (image[r][c] = colors_lungs) <=> enclosed
                /\ (cl[r][c] = colors_air /\ ~enclosed)
                       => image[r][c] = colors_non_body

\* C3 amended: a pixel ends as lungs exactly when it is air after pass 1,
\* its row has a tissue pixel to its left, and to its right a tissue pixel
\* that has an air pixel further right; every other air pixel ends as
\* non_body.
C3_InteriorAir ==
    Segmented =>
        LET cl == Classified
        IN
        \A r \in Rows, c \in Cols :
            LET enclosed ==
                    /\ cl[r][c] = colors_air
                    /\ \E l \in Cols : l < c /\ cl[r][l] = colors_tissue
                    /\ \E t \in Cols, a \in Cols :
                          /\ c < t /\ t < a
                          /\ cl[r][t] = colors_tissue
                          /\ cl[r][a] = colors_air
            IN  /\ (image[r][c] = colors_lungs) <=> enclosed
                /\ (cl[r][c] = colors_air /\ ~enclosed)
                       => image[r][c] = colors_non_body

\* a row ending in tissue whose enclosed air became non_body, next to a row
\* with lungs
C3_Witness ==
    /\ Segmented
    /\ \E r \in Rows, c \in Cols : image[r][c] = colors_lungs
    /\ \E r \in Rows, c \in Cols :
          /\ Classified[r][c] = colors_air
          /\ image[r][c] = colors_non_body
          /\ \E l \in Cols : l < c /\ Classified[r][l] = colors_tissue
          /\ \E t \in Cols : t > c /\ Classified[r][t] = colors_tissue

C5_FillOnlyBetweenAir ==
    Pass1Finished =>
        \A r \in Rows, c \in Cols :
            (High(r, c) /\ image[r][c] = colors_air)
                => \E a \in Cols, b \in Cols :
                      /\ a < c /\ c < b
                      /\ Low(r, a) /\ Low(r, b)
                      /\ b - a < jump_size

\* ---- C6 ------------------------------------------------------------------
\* C6: two rows with the same intensities carry the same labels after every
\* pass, whatever their row index and whatever the other rows hold.
C6_RowIndependence ==
    \A r1 \in Rows, r2 \in Rows :
        original[r1] = original[r2] => image[r1] = image[r2]

\* ---- C7 ------------------------------------------------------------------
\* C7: pass 1 applied to its own result (air read as below threshold,
\* tissue as at or above) changes no label.
Rebinarise(img) ==
    [r \in DOMAIN img |->
        [c \in DOMAIN img[r] |->
            IF img[r][c] = colors_air
            THEN Gray2Bgr(threshold - 1)
            ELSE Gray2Bgr(threshold)]]

C7_ClassifyIdempotent ==
    Pass1Finished => ClassifyImage(Rebinarise(image), jump_size).image = image

\* the first run filled a gap of more than one pixel
C7_Witness ==
    /\ Pass1Finished
    /\ \E r \in Rows : \E ab \in HighRuns(r) :
          /\ ab[1] < ab[2]
          /\ ab[1] - 1 \in Cols /\ ab[2] + 1 \in Cols
          /\ \A c \in ab[1]..ab[2] : image[r][c] = colors_air
    /\ \E r \in Rows, c \in Cols : image[r][c] = colors_tissue

\* ---- C8 ------------------------------------------------------------------
\* C8: the returned area is the number of lungs pixels times the two
\* spacings; it is >= 0, and 0 only if no pixel is lungs.
C8_AreaIsCountTimesSpacing ==
    Finished =>
        /\ area = Cardinality(LungCells) * voxel_dimensions[1]
                                         * voxel_dimensions[2]
        /\ area >= 0
        /\ (area = 0 => LungCells = {})

C8_Witness ==
    /\ Finished
    /\ Cardinality(LungCells) >= 2
    /\ voxel_dimensions[1] # voxel_dimensions[2]

\* ---- C10 -----------------------------------------------------------------
\* C10: pass 2 turns a row without edges (after the fake edge is dropped)
\* into non_body; otherwise it turns the pixels left of the first edge and
\* at or right of the last edge into non_body and leaves the pixels from
\* the first edge up to the last edge as they were.
NetEffect(before, after) ==
    LET E == ClaimEdges(before)
    IN  IF E = {}
        THEN \A c \in DOMAIN before : after[c] = colors_non_body
        ELSE \A c \in DOMAIN before :
                after[c] = IF c < SetMin(E) \/ c >= SetMax(E)
                           THEN colors_non_body
                           ELSE before[c]

C10_Pass2NetEffect ==
    [][pc = "pass2" => \A r \in Rows : NetEffect(image[r], image'[r])]_vars

\* pass 2 is over: one row had two edges or more and kept air and tissue,
\* another lost its only edge as a fake edge
C10_Witness ==
    /\ pc = "pass3"
    /\ \E r \in Rows :
          /\ Cardinality(ClaimEdges(Classified[r])) >= 2
          /\ \E c \in Cols : image[r][c] = colors_air
          /\ \E c \in Cols : image[r][c] = colors_tissue
    /\ \E r \in Rows :
          /\ EdgeCols(Classified[r]) # {}
          /\ ClaimEdges(Classified[r]) = {}

\* ---- C9 ------------------------------------------------------------------
\* The scenario of C9: rows of width 10, jump_size 3, columns 0-2 below
\* threshold and columns 3-6 at or above it; columns 7-9 are free.
InitScenario ==
    /\ width = 10
    /\ height \in 1..MaxHeight
    /\ jump_size = 3
    /\ \E g \in [0..(height - 1) -> [7..9 -> Intensities]] :
          image = [r \in 0..(height - 1) |->
                      [c \in 0..9 |->
                          Gray2Bgr(IF c <= 2 THEN threshold - 1
                                   ELSE IF c <= 6 THEN threshold
                                   ELSE g[r][c])]]
    /\ original = image
    /\ last = <<0, 0>>
    /\ pc = "pass1"
    /\ area = 0
    /\ voxel_dimensions = <<>>

SpecScenario == InitScenario /\ [][Next]_vars

\* columns 7, 8 and 9 of row r are air when pass 1 has finished
ScenarioRow(cl, r) == \A c \in 7..9 : cl[r][c] = colors_air

\* C9 as stated: the row ends with columns 0-2 and 9 non_body, columns 3-6
\* tissue and columns 7-8 lungs.
C9_Original ==
    Segmented =>
        LET cl == Classified
        IN  \A r \in Rows :
                ScenarioRow(cl, r) =>
                    \A c \in Cols :
                        image[r][c] = IF c <= 2 \/ c = 9 THEN colors_non_body
                                      ELSE IF c <= 6 THEN colors_tissue
                                      ELSE colors_lungs

\* C9 amended: the row ends with columns 0-2 and 7-9 non_body and columns
\* 3-6 tissue; no pixel of it is lungs.
C9_Scenario ==
    Segmented =>
        LET cl == Classified
        IN  \A r \in Rows :
                ScenarioRow(cl, r) =>
                    \A c \in Cols :
                        image[r][c] = IF c <= 2 \/ c >= 7 THEN colors_non_body
                                      ELSE colors_tissue

\* a finished run with a scenario row, one of them with column 8 at or above
\* threshold and bridged by the gap fill
C9_Witness ==
    /\ Segmented
    /\ \E r \in Rows : ScenarioRow(Classified, r) /\ High(r, 8)
    /\ \E r \in Rows : ScenarioRow(Classified, r)
                       /\ \A c \in 0..2 : image[r][c] = colors_non_body

====
